---- MODULE Spec2Model ----
(***************************************************************************)
(* Model of the reporting engine of minharenda-api:                        *)
(*   GET /relatorio/:usuarioId   (usuarios router)                         *)
(*   formatarProdutoParaExibicao (usuarios router)                         *)
(* together with the CRUD handlers of receitas and clientes that change    *)
(* the tables the report reads.                                            *)
(*                                                                         *)
(* Conventions                                                             *)
(*   - an optional (nullable) column is <<>> when null/undefined and <<v>> *)
(*     when it holds v;                                                    *)
(*   - category and attachment strings are tuples of characters, so that   *)
(*     String.prototype.trim and JavaScript truthiness are computed;       *)
(*   - a JavaScript Map is a tuple of [k, v] records in insertion order;   *)
(*   - stock and sold quantities are fixed-point numbers in thousandths    *)
(*     (Escala), so that q / 1000 is exact: 2500 stands for 2.5;           *)
(*   - an object is a function from its property names; a property that    *)
(*     is undefined is missing from the domain.                            *)
(***************************************************************************)
EXTENDS Integers, Sequences, FiniteSets, TLC

VARIABLES
    receitaTab,   \* table Receita, in storage order
    despesaTab,   \* table Despesa
    clienteTab,   \* table Cliente
    produtoTab,   \* table Produto
    itemTab,      \* table ReceitaItem
    proxId,       \* autoincrement counters of Receita and Cliente
    escritas,     \* number of CRUD requests served
    pc,           \* position of the report request (the await it is waiting on)
    usuarioId,    \* req.params.usuarioId of the report request
    loc,          \* results of the awaits of the report handler
    sec,          \* the consts the handler computes between the awaits
    buscas,       \* the awaits of the handler that have resolved
    falha,        \* the fetch that threw, "" if none
    res,          \* the responses sent on the report request
    vistos,       \* the dataset states that existed during the request
    fmtIn,        \* argument of an isolated call of formatarProdutoParaExibicao
    fmtOut        \* its result

db == <<receitaTab, despesaTab, clienteTab, produtoTab, itemTab>>
req == <<pc, usuarioId, loc, sec, buscas, falha, res>>
fmt == <<fmtIn, fmtOut>>
vars == <<receitaTab, despesaTab, clienteTab, produtoTab, itemTab, proxId,
          escritas,
          pc, usuarioId, loc, sec, buscas, falha, res, vistos,
          fmtIn, fmtOut>>

----------------------------------------------------------------------------
(* Values *)

Nada == <<>>
Algum(v) == <<v>>
Tem(o) == o # <<>>
Val(o) == o[1]

Min(a, b) == IF a < b THEN a ELSE b

\* s.trim(): strips leading and trailing white space
RECURSIVE TrimEsq(_)
TrimEsq(s) == IF s # <<>> /\ Head(s) = " " THEN TrimEsq(Tail(s)) ELSE s
RECURSIVE TrimDir(_)
TrimDir(s) ==
    IF s # <<>> /\ s[Len(s)] = " " THEN TrimDir(SubSeq(s, 1, Len(s) - 1)) ELSE s
Trim(s) == TrimDir(TrimEsq(s))

\* truthiness of a nullable string: neither null nor ""
Verdadeiro(o) == Tem(o) /\ Val(o) # <<>>

\* !x.anexo || x.anexo.trim() === ""
SemAnexo(x) == ~Verdadeiro(x.anexo) \/ Trim(Val(x.anexo)) = <<>>

Top3 == 3
Top5 == 5
Mil == 1000
\* Number(x) as a fixed-point number: thousandths
Escala == Mil
Num(x) == x * Escala

SemCategoria == <<"S", "e", "m", " ", "C", "a", "t", "e", "g", "o", "r", "i", "a">>
ErroRelatorio == "Erro ao gerar relatório"

\* Number(x.toFixed(d)) of a non-negative fixed-point number, d = 2 and d = 0
ToFixed2(x) == ((x + 5) \div 10) * 10
ToFixed0(x) == ((x + 500) \div 1000) * 1000

----------------------------------------------------------------------------
(* Arrays and Maps *)

RECURSIVE Soma(_)
Soma(s) == IF s = <<>> THEN 0 ELSE Head(s) + Soma(Tail(s))

Slice(s, n) == SubSeq(s, 1, Min(n, Len(s)))

\* Array.prototype.sort with the comparator (a, b) => key(b) - key(a): a stable
\* sort, descending by key.  Posicao is the place element i ends at.
Posicao(keys, i) ==
    1 + Cardinality({j \in 1..Len(keys) : keys[j] > keys[i]})
      + Cardinality({j \in 1..(i - 1) : keys[j] = keys[i]})
SortDesc(s, keys) ==
    [p \in 1..Len(s) |-> s[CHOOSE i \in 1..Len(s) : Posicao(keys, i) = p]]

MapHas(m, k) == \E i \in 1..Len(m) : m[i].k = k
MapGet(m, k, d) ==
    IF MapHas(m, k) THEN m[CHOOSE i \in 1..Len(m) : m[i].k = k].v ELSE d
MapSet(m, k, v) ==
    IF MapHas(m, k)
    THEN [i \in 1..Len(m) |-> IF m[i].k = k THEN [k |-> k, v |-> v] ELSE m[i]]
    ELSE Append(m, [k |-> k, v |-> v])

\* a.filter((v, i, a) => a.indexOf(v) === i)
Distintos(s) ==
    LET Primeiro(i) == \A j \in 1..(i - 1) : s[j] # s[i]
        F[i \in 0..Len(s)] ==
            IF i = 0 THEN <<>>
            ELSE IF Primeiro(i) THEN Append(F[i - 1], s[i]) ELSE F[i - 1]
    IN  F[Len(s)]

Elementos(s) == {s[i] : i \in 1..Len(s)}

----------------------------------------------------------------------------
(* The queries of the report handler, on a table as it is when the query   *)
(* runs.  findMany without orderBy returns rows in storage order.          *)

\* prisma.receita.findMany({ where: { usuarioId }, select: {...} })
ReceitaFindMany(tab, u) ==
    LET rows == SelectSeq(tab, LAMBDA r : r.usuarioId = u)
    IN  [i \in 1..Len(rows) |->
            [id |-> rows[i].id, valor |-> rows[i].valor,
             categoria |-> rows[i].categoria, anexo |-> rows[i].anexo,
             clienteId |-> rows[i].clienteId]]

\* prisma.despesa.findMany({ where: { usuarioId }, select: {...} })
DespesaFindMany(tab, u) ==
    LET rows == SelectSeq(tab, LAMBDA d : d.usuarioId = u)
    IN  [i \in 1..Len(rows) |->
            [valor |-> rows[i].valor, categoria |-> rows[i].categoria,
             anexo |-> rows[i].anexo]]

\* prisma.cliente.findMany({ where: { id: { in: ids } }, select: { id, nome } })
ClienteFindManyIn(tab, ids) ==
    LET rows == SelectSeq(tab, LAMBDA c : c.id \in Elementos(ids))
    IN  [i \in 1..Len(rows) |-> [id |-> rows[i].id, nome |-> rows[i].nome]]

\* cliente.count without its where clause
ClienteCountTodos(tab, u) == Len(tab)

\* prisma.cliente.count({ where: { usuarioId } })
ClienteCount(tab, u) == Len(SelectSeq(tab, LAMBDA c : c.usuarioId = u))

\* the line items whose receita belongs to u: where: { receita: { usuarioId } }
ItensDoUsuario(itens, receitas, u) ==
    SelectSeq(itens, LAMBDA it :
        \E i \in 1..Len(receitas) :
            receitas[i].id = it.receitaId /\ receitas[i].usuarioId = u)

\* groupBy produtoId with _sum qtdBase: the groups, in order of first occurrence
GruposPorProduto(itens, receitas, u) ==
    LET its == ItensDoUsuario(itens, receitas, u)
        F[i \in 0..Len(its)] ==
            IF i = 0 THEN <<>>
            ELSE MapSet(F[i - 1], its[i].produtoId,
                        MapGet(F[i - 1], its[i].produtoId, 0) + its[i].qtdBase)
    IN  [i \in 1..Len(F[Len(its)]) |->
            [produtoId |-> F[Len(its)][i].k, soma |-> F[Len(its)][i].v]]

\* orderBy: { _sum: { qtdBase: "desc" } }: the database returns the groups in
\* some order that is descending by sum; the order of equal sums is its choice.
OrdensDesc(g) ==
    {o \in [1..Len(g) -> 1..Len(g)] :
        /\ \A i, j \in 1..Len(g) : i # j => o[i] # o[j]
        /\ \A i, j \in 1..Len(g) : i < j => g[o[i]].soma >= g[o[j]].soma}

\* prisma.receitaItem.groupBy({ ..., orderBy, take: 3 }), for the order o
ItemGroupBy(itens, receitas, u, o) ==
    LET g == GruposPorProduto(itens, receitas, u)
    IN  Slice([i \in 1..Len(g) |-> g[o[i]]], Top3)

\* prisma.produto.findMany({ where: { id: { in: ids } }, select: {...} })
ProdutoFindManyIn(tab, ids) ==
    LET rows == SelectSeq(tab, LAMBDA p : p.id \in Elementos(ids))
    IN  [i \in 1..Len(rows) |->
            [id |-> rows[i].id, nome |-> rows[i].nome,
             unidadeBase |-> rows[i].unidadeBase]]

\* prisma.receitaItem.findMany({ where: { receitaId: { in } }, distinct })
ItemFindManyDistinct(tab, ids) ==
    LET rows == SelectSeq(tab, LAMBDA it : it.receitaId \in Elementos(ids))
    IN  Distintos([i \in 1..Len(rows) |-> rows[i].receitaId])

\* produto.findMany of the owner's products, active or not
ProdutoFindManyTodos(tab, u) ==
    LET rows == SelectSeq(tab, LAMBDA p : p.usuarioId = u)
    IN  [i \in 1..Len(rows) |->
            [nome |-> rows[i].nome, saldoBase |-> rows[i].saldoBase,
             unidadeBase |-> rows[i].unidadeBase,
             categoria |-> rows[i].categoria]]

\* prisma.produto.findMany({ where: { usuarioId, ativo: true }, select: {...} })
ProdutoFindManyAtivos(tab, u) ==
    LET rows == SelectSeq(tab, LAMBDA p : p.usuarioId = u /\ p.ativo)
    IN  [i \in 1..Len(rows) |->
            [nome |-> rows[i].nome, saldoBase |-> rows[i].saldoBase,
             unidadeBase |-> rows[i].unidadeBase,
             categoria |-> rows[i].categoria]]

----------------------------------------------------------------------------
(* formatarProdutoParaExibicao *)

Prop(o, f) == IF f \in DOMAIN o THEN Algum(o[f]) ELSE Nada

\* { ...o, [f]: v }
Com(o, f, v) == [g \in DOMAIN o \cup {f} |-> IF g = f THEN v ELSE o[g]]

\* formatarProdutoParaExibicao, with millilitres relabelled but not divided
formatarSemDividirMl(produto) ==
    LET saldo == IF Tem(Prop(produto, "saldoBase"))
                 THEN Num(produto.saldoBase) ELSE Num(0)
        unidade == Prop(produto, "unidadeBase")
        unidadeDisplay ==
            IF unidade = Algum("G") THEN "kg"
            ELSE IF unidade = Algum("ML") THEN "L" ELSE "un"
        saldoDisplay == IF unidade = Algum("G") THEN saldo \div Mil ELSE saldo
    IN  Com(Com(produto, "saldoDisplay", saldoDisplay),
            "unidadeDisplay", unidadeDisplay)

formatarProdutoParaExibicao(produto) ==
    LET saldo == IF Tem(Prop(produto, "saldoBase"))
                 THEN Num(produto.saldoBase) ELSE Num(0)
        unidade == Prop(produto, "unidadeBase")
        unidadeDisplay ==
            IF unidade = Algum("G") THEN "kg"
            ELSE IF unidade = Algum("ML") THEN "L" ELSE "un"
        saldoDisplay ==
            IF unidade = Algum("G") THEN saldo \div Mil
            ELSE IF unidade = Algum("ML") THEN saldo \div Mil ELSE saldo
    IN  Com(Com(produto, "saldoDisplay", saldoDisplay),
            "unidadeDisplay", unidadeDisplay)

----------------------------------------------------------------------------
(* The computations of the report handler, between its awaits *)

Valores(rows) == [i \in 1..Len(rows) |-> rows[i].valor]

\* lucroLiquido, with the operands of the subtraction exchanged
lucroInvertido(receitas, despesas) ==
    Soma([i \in 1..Len(despesas) |-> despesas[i].valor])
        - Soma([i \in 1..Len(receitas) |-> receitas[i].valor])

\* receitas.reduce((acc, r) => acc + Number(r.valor), 0)
totalReceitas(receitas) == Soma(Valores(receitas))
totalDespesas(despesas) == Soma(Valores(despesas))
lucroLiquido(receitas, despesas) ==
    totalReceitas(receitas) - totalDespesas(despesas)

vendasSemAnexo(receitas) == Len(SelectSeq(receitas, SemAnexo))
totalVendas(receitas) == Len(receitas)
despesasSemAnexo(despesas) == Len(SelectSeq(despesas, SemAnexo))

\* receitas.forEach(r => { if (r.categoria) map.set(cat, (map.get(cat) ?? 0) + 1) })
categoriasReceitasMap(receitas) ==
    LET F[i \in 0..Len(receitas)] ==
            IF i = 0 THEN <<>>
            ELSE IF Verdadeiro(receitas[i].categoria)
                 THEN MapSet(F[i - 1], Val(receitas[i].categoria),
                             MapGet(F[i - 1], Val(receitas[i].categoria), 0) + 1)
                 ELSE F[i - 1]
    IN  F[Len(receitas)]

categoriasMaisVendidas(receitas) ==
    LET m == categoriasReceitasMap(receitas)
        o == Slice(SortDesc(m, [i \in 1..Len(m) |-> m[i].v]), Top3)
    IN  [i \in 1..Len(o) |-> [categoria |-> o[i].k, contagem |-> o[i].v]]

\* CategoriaDespesa, without the trim
CategoriaDespesaSemTrim(d) ==
    IF Verdadeiro(d.categoria) THEN Val(d.categoria) ELSE SemCategoria

\* d.categoria && d.categoria.trim() !== "" ? d.categoria : "Sem Categoria"
CategoriaDespesa(d) ==
    IF Verdadeiro(d.categoria) /\ Trim(Val(d.categoria)) # <<>>
    THEN Val(d.categoria) ELSE SemCategoria

categoriasDespesasMap(despesas) ==
    LET F[i \in 0..Len(despesas)] ==
            IF i = 0 THEN <<>>
            ELSE LET cat == CategoriaDespesa(despesas[i])
                     atual == MapGet(F[i - 1], cat, [count |-> 0, total |-> 0])
                 IN  MapSet(F[i - 1], cat,
                            [count |-> atual.count + 1,
                             total |-> atual.total + despesas[i].valor])
    IN  F[Len(despesas)]

categoriasMaisDespesas(despesas) ==
    LET m == categoriasDespesasMap(despesas)
        o == Slice(SortDesc(m, [i \in 1..Len(m) |-> m[i].v.count]), Top3)
    IN  [i \in 1..Len(o) |-> [categoria |-> o[i].k, contagem |-> o[i].v.count]]

valorGastoCategorias(despesas) ==
    LET m == categoriasDespesasMap(despesas)
        o == Slice(SortDesc(m, [i \in 1..Len(m) |-> m[i].v.total]), Top3)
    IN  [i \in 1..Len(o) |-> [categoria |-> o[i].k, valor |-> o[i].v.total]]

\* receitas.filter(r => r.clienteId)
receitasComCliente(receitas) ==
    SelectSeq(receitas, LAMBDA r : Tem(r.clienteId) /\ Val(r.clienteId) # 0)

clientesIds(receitas) ==
    LET rc == receitasComCliente(receitas)
    IN  Distintos([i \in 1..Len(rc) |-> Val(rc[i].clienteId)])

\* clientesData.forEach(c => clienteNomeMap.set(c.id, c.nome))
clienteNomeMap(clientesData) ==
    LET F[i \in 0..Len(clientesData)] ==
            IF i = 0 THEN <<>>
            ELSE MapSet(F[i - 1], clientesData[i].id, clientesData[i].nome)
    IN  F[Len(clientesData)]

\* `Cliente ID ${id}`
\* the synthesized name without the id
NomeSemId(id) == "Cliente ID"

NomeSintetico(id) == "Cliente ID " \o ToString(id)

\* clientesMap, keeping the amount of the last receita instead of the sum
clientesMapUltimo(receitas, clientesData) ==
    LET rc == receitasComCliente(receitas)
        nomes == clienteNomeMap(clientesData)
        F[i \in 0..Len(rc)] ==
            IF i = 0 THEN <<>>
            ELSE LET id == Val(rc[i].clienteId)
                     nome == MapGet(nomes, id, NomeSintetico(id))
                     atual == MapGet(F[i - 1], id,
                                  [nome |-> nome, totalGasto |-> 0, contagem |-> 0])
                 IN  MapSet(F[i - 1], id,
                            [nome |-> atual.nome,
                             totalGasto |-> rc[i].valor,
                             contagem |-> atual.contagem + 1])
    IN  F[Len(rc)]

clientesMap(receitas, clientesData) ==
    LET rc == receitasComCliente(receitas)
        nomes == clienteNomeMap(clientesData)
        F[i \in 0..Len(rc)] ==
            IF i = 0 THEN <<>>
            ELSE LET id == Val(rc[i].clienteId)
                     nome == MapGet(nomes, id, NomeSintetico(id))
                     atual == MapGet(F[i - 1], id,
                                  [nome |-> nome, totalGasto |-> 0, contagem |-> 0])
                 IN  MapSet(F[i - 1], id,
                            [nome |-> atual.nome,
                             totalGasto |-> atual.totalGasto + rc[i].valor,
                             contagem |-> atual.contagem + 1])
    IN  F[Len(rc)]

\* Array.from(clientesMap.values())
MapValues(m) == [i \in 1..Len(m) |-> m[i].v]

clientesQueMaisGastaram(receitas, clientesData) ==
    LET vs == MapValues(clientesMap(receitas, clientesData))
    IN  Slice(SortDesc(vs, [i \in 1..Len(vs) |-> vs[i].totalGasto]), Top5)

clientesComMaisCompras(receitas, clientesData) ==
    LET vs == MapValues(clientesMap(receitas, clientesData))
    IN  Slice(SortDesc(vs, [i \in 1..Len(vs) |-> vs[i].contagem]), Top3)

idsVendidos(agg) == [i \in 1..Len(agg) |-> agg[i].produtoId]

\* produtosVendidosAgg.map(item => { ... })
produtosMaisVendidos(agg, info) ==
    [i \in 1..Len(agg) |->
        LET achados == SelectSeq(info, LAMBDA p : p.id = agg[i].produtoId)
            produtoInfo == IF achados = <<>> THEN <<>> ELSE achados[1]
            produtoFormatado ==
                formatarProdutoParaExibicao(
                    Com(produtoInfo, "saldoBase", agg[i].soma))
        IN  [nome |-> Prop(produtoFormatado, "nome"),
             quantidade |-> produtoFormatado.saldoDisplay,
             unidade |-> produtoFormatado.unidadeDisplay]]

receitasIds(receitas) == [i \in 1..Len(receitas) |-> receitas[i].id]

\* vendasSemItens with the test of the filter negated
vendasComItens(receitas, comItens) ==
    Len(SelectSeq([i \in 1..Len(receitas) |-> receitas[i].id],
                  LAMBDA id : id \in Elementos(comItens)))

\* receitasIds.filter(id => !receitasComItensIds.has(id)).length
vendasSemItens(receitas, comItens) ==
    Len(SelectSeq(receitasIds(receitas), LAMBDA id : id \notin Elementos(comItens)))

produtosFormatadosEstoque(estoque) ==
    [i \in 1..Len(estoque) |-> formatarProdutoParaExibicao(estoque[i])]

categoriasEstoqueMap(estoque) ==
    LET ps == produtosFormatadosEstoque(estoque)
        F[i \in 0..Len(ps)] ==
            IF i = 0 THEN <<>>
            ELSE IF Verdadeiro(ps[i].categoria)
                 THEN MapSet(F[i - 1], Val(ps[i].categoria),
                             MapGet(F[i - 1], Val(ps[i].categoria), 0)
                                 + ps[i].saldoDisplay)
                 ELSE F[i - 1]
    IN  F[Len(ps)]

categoriasEstoque(estoque) ==
    LET m == categoriasEstoqueMap(estoque)
        o == Slice(SortDesc(m, [i \in 1..Len(m) |-> m[i].v]), Top3)
    IN  [i \in 1..Len(o) |->
            [categoria |-> o[i].k, quantidade |-> ToFixed2(o[i].v)]]

\* filter by display unit, sort by display quantity, take the first 3
MaioresDaUnidade(estoque, unidade) ==
    LET ps == SelectSeq(produtosFormatadosEstoque(estoque),
                        LAMBDA p : p.unidadeDisplay = unidade)
    IN  Slice(SortDesc(ps, [i \in 1..Len(ps) |-> ps[i].saldoDisplay]), Top3)

estoquePorUnidade(estoque) ==
    LET o == MaioresDaUnidade(estoque, "un")
    IN  [i \in 1..Len(o) |->
            [produto |-> o[i].nome, quantidade |-> ToFixed0(o[i].saldoDisplay)]]

estoquePorKg(estoque) ==
    LET o == MaioresDaUnidade(estoque, "kg")
    IN  [i \in 1..Len(o) |->
            [produto |-> o[i].nome, quantidade |-> ToFixed2(o[i].saldoDisplay),
             unidade |-> "Kg"]]

estoquePorL(estoque) ==
    LET o == MaioresDaUnidade(estoque, "L")
    IN  [i \in 1..Len(o) |->
            [produto |-> o[i].nome, quantidade |-> ToFixed2(o[i].saldoDisplay),
             unidade |-> "L"]]

----------------------------------------------------------------------------
(* GET /relatorio/:usuarioId.  One action per await: the query on the      *)
(* tables as they are at that moment, followed by the code up to the next  *)
(* await.  A query that throws takes the handler to its catch block.       *)

\* the consts computed after despesa.findMany resolves
AposDespesas(l) ==
    [totalReceitas |-> totalReceitas(l.receitas),
     totalDespesas |-> totalDespesas(l.despesas),
     lucroLiquido |-> lucroLiquido(l.receitas, l.despesas),
     vendasSemAnexo |-> vendasSemAnexo(l.receitas),
     totalVendas |-> totalVendas(l.receitas),
     categoriasReceitasMap |-> categoriasReceitasMap(l.receitas),
     categoriasMaisVendidas |-> categoriasMaisVendidas(l.receitas),
     despesasSemAnexo |-> despesasSemAnexo(l.despesas),
     categoriasDespesasMap |-> categoriasDespesasMap(l.despesas),
     categoriasMaisDespesas |-> categoriasMaisDespesas(l.despesas),
     valorGastoCategorias |-> valorGastoCategorias(l.despesas)]

\* the consts computed after cliente.findMany resolves
AposClientes(l) ==
    [clientesMap |-> clientesMap(l.receitas, l.clientesData),
     clientesQueMaisGastaram |->
         clientesQueMaisGastaram(l.receitas, l.clientesData),
     clientesComMaisCompras |->
         clientesComMaisCompras(l.receitas, l.clientesData)]

\* the consts computed after produto.findMany (of the sold ids) resolves
AposProdutos(l) ==
    [produtosMaisVendidos |->
         produtosMaisVendidos(l.produtosVendidosAgg, l.produtosVendidosInfo)]

\* AposComItens, with the stock categories computed before the stock is fetched
AposComItensCedo(l) ==
    [vendasSemItens |-> vendasSemItens(l.receitas, l.receitasComItens),
     categoriasEstoque |-> categoriasEstoque(l.produtosEmEstoque)]

\* the consts computed after receitaItem.findMany resolves
AposComItens(l) ==
    [vendasSemItens |-> vendasSemItens(l.receitas, l.receitasComItens)]

\* the consts computed after produto.findMany (of the active products) resolves
AposEstoque(l) ==
    [categoriasEstoque |-> categoriasEstoque(l.produtosEmEstoque),
     estoquePorUnidade |-> estoquePorUnidade(l.produtosEmEstoque),
     estoquePorKg |-> estoquePorKg(l.produtosEmEstoque),
     estoquePorL |-> estoquePorL(l.produtosEmEstoque)]

\* the object passed to res.status(200).json
Corpo(l, s) ==
    [totais |->
        [totalReceitas |-> s.totalReceitas,
         totalDespesas |-> s.totalDespesas,
         lucroLiquido |-> s.lucroLiquido],
     receitas |->
        [categoriasMaisVendidas |-> s.categoriasMaisVendidas,
         produtosMaisVendidos |-> s.produtosMaisVendidos,
         totalVendas |-> s.totalVendas,
         valorTotalVendas |-> s.totalReceitas,
         vendasSemItens |-> s.vendasSemItens,
         vendasSemAnexo |-> s.vendasSemAnexo],
     despesas |->
        [categoriasMaisDespesas |-> s.categoriasMaisDespesas,
         valorGastoCategorias |-> s.valorGastoCategorias,
         despesasSemAnexo |-> s.despesasSemAnexo],
     clientes |->
        [clientesQueMaisGastaram |-> s.clientesQueMaisGastaram,
         clientesComMaisCompras |-> s.clientesComMaisCompras,
         totalClientesRegistrados |-> l.totalClientes],
     estoque |->
        [categoriasEstoque |-> s.categoriasEstoque,
         maiorQtdUnidade |-> s.estoquePorUnidade,
         maiorQtdKg |-> s.estoquePorKg,
         maiorQtdMl |-> s.estoquePorL]]

LocInicial ==
    [receitas |-> <<>>, despesas |-> <<>>, clientesData |-> <<>>,
     totalClientes |-> 0, produtosVendidosAgg |-> <<>>,
     produtosVendidosInfo |-> <<>>, receitasComItens |-> <<>>,
     produtosEmEstoque |-> <<>>]

ReqInicial ==
    /\ pc = "idle"
    /\ usuarioId = ""
    /\ loc = LocInicial
    /\ sec = <<>>
    /\ buscas = {}
    /\ falha = ""
    /\ res = <<>>
    /\ vistos = {}

\* the request arrives: the handler runs up to its first await
Pedido(u) ==
    /\ pc = "idle"
    /\ pc' = "receitas"
    /\ usuarioId' = u
    /\ vistos' = {db}
    /\ UNCHANGED <<db, proxId, escritas, loc, sec, buscas, falha, res, fmt>>

\* Catch, answering with the sections computed so far next to the error
CatchParcial(busca) ==
    /\ falha' = busca
    /\ res' = Append(res, [status |-> 500,
                           body |-> [erro |-> ErroRelatorio] @@ sec])
    /\ pc' = "done"
    /\ UNCHANGED <<loc, sec, buscas>>

\* catch (error) { res.status(500).json({ erro: "Erro ao gerar relatório" }) }
Catch(busca) ==
    /\ falha' = busca
    /\ res' = Append(res, [status |-> 500, body |-> [erro |-> ErroRelatorio]])
    /\ pc' = "done"
    /\ UNCHANGED <<loc, sec, buscas>>

\* an await resolves with `valor` for the local `nome`; the handler computes
\* `novas` and reaches the await `prox`
Resolve(busca, nome, valor, novas, prox) ==
    /\ loc' = [loc EXCEPT ![nome] = valor]
    /\ sec' = novas @@ sec
    /\ buscas' = buscas \cup {busca}
    /\ pc' = prox
    /\ UNCHANGED <<falha, res>>

\* BuscaReceitas with the owner's receitas removed from the table once read
BuscaReceitasApagando(ok) ==
    /\ pc = "receitas"
    /\ IF ok
       THEN Resolve("receitas", "receitas", ReceitaFindMany(receitaTab, usuarioId),
                    <<>>, "despesas")
       ELSE Catch("receitas")
    /\ receitaTab' = SelectSeq(receitaTab, LAMBDA r : r.usuarioId # usuarioId)
    /\ UNCHANGED <<despesaTab, clienteTab, produtoTab, itemTab, proxId,
                   escritas, usuarioId, vistos, fmt>>

\* const receitas = await prisma.receita.findMany({ where: { usuarioId } })
BuscaReceitas(ok) ==
    /\ pc = "receitas"
    /\ IF ok
       THEN Resolve("receitas", "receitas", ReceitaFindMany(receitaTab, usuarioId),
                    <<>>, "despesas")
       ELSE Catch("receitas")
    /\ UNCHANGED <<db, proxId, escritas, usuarioId, vistos, fmt>>

BuscaDespesas(ok) ==
    /\ pc = "despesas"
    /\ IF ok
       THEN LET d == DespesaFindMany(despesaTab, usuarioId)
            IN  Resolve("despesas", "despesas", d,
                        AposDespesas([loc EXCEPT !.despesas = d]), "clientes")
       ELSE Catch("despesas")
    /\ UNCHANGED <<db, proxId, escritas, usuarioId, vistos, fmt>>

BuscaClientes(ok) ==
    /\ pc = "clientes"
    /\ IF ok
       THEN LET c == ClienteFindManyIn(clienteTab, clientesIds(loc.receitas))
            IN  Resolve("clientes", "clientesData", c,
                        AposClientes([loc EXCEPT !.clientesData = c]), "count")
       ELSE Catch("clientes")
    /\ UNCHANGED <<db, proxId, escritas, usuarioId, vistos, fmt>>

ContaClientes(ok) ==
    /\ pc = "count"
    /\ IF ok
       THEN Resolve("count", "totalClientes", ClienteCount(clienteTab, usuarioId),
                    <<>>, "groupBy")
       ELSE Catch("count")
    /\ UNCHANGED <<db, proxId, escritas, usuarioId, vistos, fmt>>

GroupByItens(ok) ==
    /\ pc = "groupBy"
    /\ IF ok
       THEN \E o \in OrdensDesc(GruposPorProduto(itemTab, receitaTab, usuarioId)) :
                Resolve("groupBy", "produtosVendidosAgg",
                        ItemGroupBy(itemTab, receitaTab, usuarioId, o), <<>>, "produtos")
       ELSE Catch("groupBy")
    /\ UNCHANGED <<db, proxId, escritas, usuarioId, vistos, fmt>>

BuscaProdutosVendidos(ok) ==
    /\ pc = "produtos"
    /\ IF ok
       THEN LET p == ProdutoFindManyIn(produtoTab,
                                       idsVendidos(loc.produtosVendidosAgg))
            IN  Resolve("produtos", "produtosVendidosInfo", p,
                        AposProdutos([loc EXCEPT !.produtosVendidosInfo = p]),
                        "comItens")
       ELSE Catch("produtos")
    /\ UNCHANGED <<db, proxId, escritas, usuarioId, vistos, fmt>>

BuscaReceitasComItens(ok) ==
    /\ pc = "comItens"
    /\ IF ok
       THEN LET c == ItemFindManyDistinct(itemTab, receitasIds(loc.receitas))
            IN  Resolve("comItens", "receitasComItens", c,
                        AposComItens([loc EXCEPT !.receitasComItens = c]),
                        "estoque")
       ELSE Catch("comItens")
    /\ UNCHANGED <<db, proxId, escritas, usuarioId, vistos, fmt>>

\* the last await: the stock sections, then res.status(200).json({...})
BuscaProdutosEmEstoque(ok) ==
    /\ pc = "estoque"
    /\ IF ok
       THEN LET p == ProdutoFindManyAtivos(produtoTab, usuarioId)
                l == [loc EXCEPT !.produtosEmEstoque = p]
                s == AposEstoque(l) @@ sec
            IN  /\ loc' = l
                /\ sec' = s
                /\ buscas' = buscas \cup {"estoque"}
                /\ res' = Append(res, [status |-> 200, body |-> Corpo(l, s)])
                /\ pc' = "done"
                /\ UNCHANGED falha
       ELSE Catch("estoque")
    /\ UNCHANGED <<db, proxId, escritas, usuarioId, vistos, fmt>>

----------------------------------------------------------------------------
(* The CRUD handlers that write the tables the report reads.  A handler    *)
(* whose validation or query fails answers 400 and changes nothing, which  *)
(* is no step.  Receita.clienteId is a relation (include: { cliente }), so *)
(* the store refuses a clienteId that names no Cliente, and clears the     *)
(* clienteId of the receitas of a Cliente that is deleted (the referential *)
(* action of an optional relation).                                        *)

EmCurso == pc \notin {"idle", "done"}

\* the dataset states a running report request has coexisted with
Visto(novo) ==
    /\ vistos' = IF EmCurso THEN vistos \cup {novo} ELSE vistos
    /\ escritas' = escritas + 1

ClienteExiste(id) == \E i \in 1..Len(clienteTab) : clienteTab[i].id = id

\* receitaSchema.safeParse(req.body) succeeds
ReceitaValida(valor, categoria, clienteId) ==
    /\ valor > 0
    /\ Tem(categoria) => Len(Val(categoria)) >= 2
    /\ Tem(clienteId) => Val(clienteId) > 0

\* POST /receitas
CreateReceita(valor, categoria, anexo, clienteId, u) ==
    /\ ReceitaValida(valor, categoria, clienteId)
    /\ Tem(clienteId) => ClienteExiste(Val(clienteId))
    /\ receitaTab' = Append(receitaTab,
           [id |-> proxId.receita, valor |-> valor, categoria |-> categoria,
            anexo |-> anexo, clienteId |-> clienteId, usuarioId |-> u])
    /\ proxId' = [proxId EXCEPT !.receita = @ + 1]
    /\ Visto(<<receitaTab', despesaTab, clienteTab, produtoTab, itemTab>>)
    /\ UNCHANGED <<despesaTab, clienteTab, produtoTab, itemTab, req, fmt>>

\* PUT /receitas/:id
UpdateReceita(id, valor, categoria, anexo, clienteId, u) ==
    /\ ReceitaValida(valor, categoria, clienteId)
    /\ Tem(clienteId) => ClienteExiste(Val(clienteId))
    /\ \E i \in 1..Len(receitaTab) : receitaTab[i].id = id
    /\ receitaTab' = [i \in 1..Len(receitaTab) |->
           IF receitaTab[i].id = id
           THEN [id |-> id, valor |-> valor, categoria |-> categoria,
                 anexo |-> anexo, clienteId |-> clienteId, usuarioId |-> u]
           ELSE receitaTab[i]]
    /\ receitaTab' # receitaTab
    /\ Visto(<<receitaTab', despesaTab, clienteTab, produtoTab, itemTab>>)
    /\ UNCHANGED <<despesaTab, clienteTab, produtoTab, itemTab, proxId, req, fmt>>

\* DELETE /receitas/:id
DeleteReceita(id) ==
    /\ \E i \in 1..Len(receitaTab) : receitaTab[i].id = id
    /\ \A i \in 1..Len(itemTab) : itemTab[i].receitaId # id
    /\ receitaTab' = SelectSeq(receitaTab, LAMBDA r : r.id # id)
    /\ Visto(<<receitaTab', despesaTab, clienteTab, produtoTab, itemTab>>)
    /\ UNCHANGED <<despesaTab, clienteTab, produtoTab, itemTab, proxId, req, fmt>>

\* clienteSchema.safeParse(req.body) succeeds
ClienteValido(nome) == Len(nome) >= 3

\* POST /clientes
CreateCliente(nome, u) ==
    /\ ClienteValido(nome)
    /\ clienteTab' = Append(clienteTab,
           [id |-> proxId.cliente, nome |-> nome, usuarioId |-> u])
    /\ proxId' = [proxId EXCEPT !.cliente = @ + 1]
    /\ Visto(<<receitaTab, despesaTab, clienteTab', produtoTab, itemTab>>)
    /\ UNCHANGED <<receitaTab, despesaTab, produtoTab, itemTab, req, fmt>>

\* PUT /clientes/:id
UpdateCliente(id, nome, u) ==
    /\ ClienteValido(nome)
    /\ ClienteExiste(id)
    /\ clienteTab' = [i \in 1..Len(clienteTab) |->
           IF clienteTab[i].id = id
           THEN [id |-> id, nome |-> nome, usuarioId |-> u]
           ELSE clienteTab[i]]
    /\ clienteTab' # clienteTab
    /\ Visto(<<receitaTab, despesaTab, clienteTab', produtoTab, itemTab>>)
    /\ UNCHANGED <<receitaTab, despesaTab, produtoTab, itemTab, proxId, req, fmt>>

\* DELETE /clientes/:id
DeleteCliente(id) ==
    /\ ClienteExiste(id)
    /\ clienteTab' = SelectSeq(clienteTab, LAMBDA c : c.id # id)
    /\ receitaTab' = [i \in 1..Len(receitaTab) |->
           IF receitaTab[i].clienteId = Algum(id)
           THEN [receitaTab[i] EXCEPT !.clienteId = Nada]
           ELSE receitaTab[i]]
    /\ Visto(<<receitaTab', despesaTab, clienteTab', produtoTab, itemTab>>)
    /\ UNCHANGED <<despesaTab, produtoTab, itemTab, proxId, req, fmt>>

----------------------------------------------------------------------------
(* The server next to its clients: one report request, with CRUD requests  *)
(* served while it waits on its queries.                                   *)

Usuarios == {"u1", "u2"}
Nomes == {"Ana", "Bob"}
\* the owners named in the bodies of the cliente requests
DonosCliente == {"u1"}

\* at most this many CRUD requests are served
MaxEscritas == 3

\* a CRUD request may be served now
Serve == pc # "done" /\ escritas < MaxEscritas

ValoresCrud == {1}
Ids == 1..MaxEscritas
ClientesCrud == {Nada} \cup {Algum(i) : i \in Ids}

Init ==
    /\ receitaTab = <<>>
    /\ despesaTab = <<>>
    /\ clienteTab = <<>>
    /\ produtoTab = <<>>
    /\ itemTab = <<>>
    /\ proxId = [receita |-> 1, cliente |-> 1]
    /\ escritas = 0
    /\ ReqInicial
    /\ fmtIn = <<>>
    /\ fmtOut = <<>>

Next ==
    \/ \E u \in Usuarios : Pedido(u)
    \/ \E ok \in BOOLEAN : BuscaReceitas(ok)
    \/ \E ok \in BOOLEAN : BuscaDespesas(ok)
    \/ \E ok \in BOOLEAN : BuscaClientes(ok)
    \/ \E ok \in BOOLEAN : ContaClientes(ok)
    \/ \E ok \in BOOLEAN : GroupByItens(ok)
    \/ \E ok \in BOOLEAN : BuscaProdutosVendidos(ok)
    \/ \E ok \in BOOLEAN : BuscaReceitasComItens(ok)
    \/ \E ok \in BOOLEAN : BuscaProdutosEmEstoque(ok)
    \/ \E v \in ValoresCrud, c \in ClientesCrud, u \in Usuarios :
        Serve /\ CreateReceita(v, Nada, Nada, c, u)
    \/ \E id \in Ids, v \in ValoresCrud, c \in ClientesCrud, u \in Usuarios :
        Serve /\ UpdateReceita(id, v, Nada, Nada, c, u)
    \/ \E id \in Ids : Serve /\ DeleteReceita(id)
    \/ \E n \in Nomes, u \in DonosCliente : Serve /\ CreateCliente(n, u)
    \/ \E id \in Ids, n \in Nomes, u \in DonosCliente :
        Serve /\ UpdateCliente(id, n, u)
    \/ \E id \in Ids : Serve /\ DeleteCliente(id)

Spec == Init /\ [][Next]_vars

----------------------------------------------------------------------------
(* The report computed on one dataset state: the handler run with every    *)
(* query answered from the same tables S = <<receitas, despesas, clientes, *)
(* produtos, itens>>, the database ordering the sold products by o.        *)

LocDe(S, u, o) ==
    LET receitas == ReceitaFindMany(S[1], u)
        agg == ItemGroupBy(S[5], S[1], u, o)
    IN  [receitas |-> receitas,
         despesas |-> DespesaFindMany(S[2], u),
         clientesData |-> ClienteFindManyIn(S[3], clientesIds(receitas)),
         totalClientes |-> ClienteCount(S[3], u),
         produtosVendidosAgg |-> agg,
         produtosVendidosInfo |-> ProdutoFindManyIn(S[4], idsVendidos(agg)),
         receitasComItens |-> ItemFindManyDistinct(S[5], receitasIds(receitas)),
         produtosEmEstoque |-> ProdutoFindManyAtivos(S[4], u)]

SecDe(l) ==
    AposDespesas(l) @@ AposClientes(l) @@ AposProdutos(l) @@ AposComItens(l)
        @@ AposEstoque(l)

CorpoDe(S, u, o) == Corpo(LocDe(S, u, o), SecDe(LocDe(S, u, o)))

CorposDe(S, u) ==
    {CorpoDe(S, u, o) : o \in OrdensDesc(GruposPorProduto(S[5], S[1], u))}

----------------------------------------------------------------------------
(* The report on a dataset at rest: the tables are drawn from families of  *)
(* datasets, one per report section, and no CRUD request is served.        *)

\* the longest table of a family
MaxLinhas == 2

SeqsAte(S, n) == UNION {[1..k -> S] : k \in 0..n}

\* the rows r with the autoincrement id of their position
ComIds(r) == [i \in 1..Len(r) |-> Com(r[i], "id", i)]

Aa == <<"a", "a">>
AA == <<"A", "a">>
Rent == <<"r", "e", "n", "t">>
Url == <<"h", "t", "t", "p", ":", "/", "/", "x">>

ReceitaDe(v, cat, an, cl, u) ==
    [valor |-> v, categoria |-> cat, anexo |-> an, clienteId |-> cl,
     usuarioId |-> u]
DespesaDe(v, cat, an, u) ==
    [valor |-> v, categoria |-> cat, anexo |-> an, usuarioId |-> u]
ProdutoDe(n, un, q, cat, at, u) ==
    [nome |-> n, unidadeBase |-> un, saldoBase |-> q, categoria |-> cat,
     ativo |-> at, usuarioId |-> u]

\* totals: amounts of both owners, expenses above and below the revenue
FamTotais ==
    {<<ComIds(r), d, <<>>, <<>>, <<>>>> :
        r \in SeqsAte({ReceitaDe(50, Nada, Nada, Nada, "u1"),
                       ReceitaDe(100, Nada, Nada, Nada, "u1"),
                       ReceitaDe(100, Nada, Nada, Nada, "u2")}, MaxLinhas),
        d \in SeqsAte({DespesaDe(30, Algum(Rent), Algum(Url), "u1"),
                       DespesaDe(200, Algum(Rent), Algum(Url), "u1"),
                       DespesaDe(30, Algum(Rent), Algum(Url), "u2")},
                      MaxLinhas)}

\* categories of the receitas: null, "", equal up to case, with and without
\* an attachment
FamCatReceitas ==
    {<<ComIds(r), <<>>, <<>>, <<>>, <<>>>> :
        r \in SeqsAte({ReceitaDe(1, cat, an, Nada, "u1") :
                          cat \in {Nada, Algum(<<>>), Algum(Aa), Algum(AA)},
                          an \in {Nada, Algum(Url)}}, MaxLinhas)}

\* categories of the despesas: null, "", blank, and the label of the
\* expenses without category, next to no receita or to two of them
FamCategorias ==
    {<<ComIds(r), d, <<>>, <<>>, <<>>>> :
        r \in {<<>>, <<ReceitaDe(1, Algum(<<>>), Nada, Nada, "u1"),
                       ReceitaDe(1, Algum(Aa), Nada, Nada, "u1")>>},
        d \in SeqsAte({DespesaDe(1, cat, Nada, "u1") :
                          cat \in {Nada, Algum(<<>>), Algum(<<" ">>), Algum(Aa),
                                   Algum(SemCategoria)}}, MaxLinhas)}

\* clients of both owners, receitas of u1 with and without a client
FamClientes ==
    UNION {
        {<<ComIds(r), <<>>, ComIds(c), <<>>, <<>>>> :
            r \in SeqsAte({ReceitaDe(v, Nada, Nada, cl, "u1") :
                              v \in {40, 60},
                              cl \in {Nada} \cup {Algum(i) : i \in 1..Len(c)}},
                          MaxLinhas)} :
        c \in SeqsAte({[nome |-> "Ana", usuarioId |-> "u1"],
                       [nome |-> "Bob", usuarioId |-> "u2"]}, MaxLinhas)}

\* line items of the receitas 1, 2 (of u1) and 3 (of u2), on the products 1
\* (of u1), 2 (of u2) and 3 (no such product)
FamItens ==
    {<<ComIds(<<ReceitaDe(10, Nada, Nada, Nada, "u1"),
                ReceitaDe(10, Nada, Nada, Nada, "u1"),
                ReceitaDe(10, Nada, Nada, Nada, "u2")>>),
       <<>>, <<>>,
       ComIds(<<ProdutoDe("Arroz", "G", 0, Nada, TRUE, "u1"),
                ProdutoDe("Suco", "ML", 0, Nada, TRUE, "u2")>>),
       it>> :
        it \in SeqsAte([receitaId : 1..3, produtoId : 1..3, qtdBase : {1500}],
                       MaxLinhas)}

\* products in stock, of every unit class
FamEstoque ==
    {<<<<>>, <<>>, <<>>, ComIds(p), <<>>>> :
        p \in SeqsAte({ProdutoDe("Item", m[1], m[2], c[1], c[2], "u1") :
                          m \in {<<"UN", 7>>, <<"UN", 12>>, <<"G", 2500>>,
                                 <<"ML", 2500>>},
                          c \in {<<Nada, TRUE>>, <<Algum(Aa), TRUE>>,
                                 <<Algum(Aa), FALSE>>}},
                      MaxLinhas)}

\* more products than a unit-class list holds: three counted products of u1,
\* and further products, counted, weighed or measured, active or not
FamEstoqueCheio ==
    {<<<<>>, <<>>, <<>>,
       ComIds(<<ProdutoDe("A", "UN", 5, Algum(Aa), TRUE, "u1"),
                ProdutoDe("B", "UN", 9, Algum(Aa), TRUE, "u1"),
                ProdutoDe("C", "UN", 9, Nada, TRUE, "u1")>> \o p),
       <<>>>> :
        p \in SeqsAte({ProdutoDe("D", "UN", 12, Algum(Aa), TRUE, "u1"),
                       ProdutoDe("D", "UN", 3, Algum(Aa), TRUE, "u1"),
                       ProdutoDe("X", "UN", 12, Algum(Aa), FALSE, "u1"),
                       ProdutoDe("X", "G", 9000, Algum(Aa), FALSE, "u1"),
                       ProdutoDe("E", "G", 2500, Algum(AA), TRUE, "u1"),
                       ProdutoDe("F", "ML", 500, Algum(AA), TRUE, "u2")},
                      MaxLinhas)}

\* u1 owns records of every kind, u2 owns none
FamUmDono ==
    {<<ComIds(<<ReceitaDe(10, Algum(Aa), Nada, Algum(1), "u1")>>),
       <<DespesaDe(30, Algum(Rent), Nada, "u1")>>,
       ComIds(<<[nome |-> "Ana", usuarioId |-> "u1"]>>),
       ComIds(<<ProdutoDe("Arroz", "G", 2500, Algum(Aa), TRUE, "u1")>>),
       it>> :
        it \in SeqsAte([receitaId : {1}, produtoId : {1}, qtdBase : {1500}],
                       MaxLinhas)}

Familias ==
    FamTotais \cup FamCatReceitas \cup FamCategorias \cup FamClientes
        \cup FamItens \cup FamEstoque \cup FamEstoqueCheio \cup FamUmDono

Tabelas(S) ==
    /\ receitaTab = S[1]
    /\ despesaTab = S[2]
    /\ clienteTab = S[3]
    /\ produtoTab = S[4]
    /\ itemTab = S[5]

InitCalc ==
    /\ \E S \in Familias : Tabelas(S)
    /\ proxId = [receita |-> Len(receitaTab) + 1, cliente |-> Len(clienteTab) + 1]
    /\ escritas = 0
    /\ ReqInicial
    /\ fmtIn = <<>>
    /\ fmtOut = <<>>

NextCalc ==
    \/ \E u \in Usuarios : Pedido(u)
    \/ BuscaReceitas(TRUE)
    \/ BuscaDespesas(TRUE)
    \/ BuscaClientes(TRUE)
    \/ ContaClientes(TRUE)
    \/ GroupByItens(TRUE)
    \/ BuscaProdutosVendidos(TRUE)
    \/ BuscaReceitasComItens(TRUE)
    \/ BuscaProdutosEmEstoque(TRUE)

SpecCalc == InitCalc /\ [][NextCalc]_vars

----------------------------------------------------------------------------
(* formatarProdutoParaExibicao on its own: the argument is drawn from      *)
(* objects with and without each property, and the function is applied.   *)

Campo(f, S) == {<<>>} \cup {[x \in {f} |-> v] : v \in S}

EntradasFmt ==
    {[nome |-> "Arroz"] @@ q @@ un @@ cat :
        q \in Campo("saldoBase", {0, 1, 7, 2500}),
        un \in Campo("unidadeBase", {"G", "ML", "UN", "g", "KG"}),
        cat \in Campo("categoria", {Algum(Aa)})}

Formata ==
    /\ fmtOut = <<>>
    /\ fmtOut' = formatarProdutoParaExibicao(fmtIn)
    /\ UNCHANGED <<db, proxId, escritas, req, vistos, fmtIn>>

InitFmt ==
    /\ Tabelas(<<<<>>, <<>>, <<>>, <<>>, <<>>>>)
    /\ proxId = [receita |-> 1, cliente |-> 1]
    /\ escritas = 0
    /\ ReqInicial
    /\ fmtIn \in EntradasFmt
    /\ fmtOut = <<>>

NextFmt == Formata

SpecFmt == InitFmt /\ [][NextFmt]_vars

----------------------------------------------------------------------------
(* Properties of the report request served next to CRUD requests (Spec) *)

TodasBuscas ==
    {"receitas", "despesas", "clientes", "count", "groupBy", "produtos",
     "comItens", "estoque"}

Respondeu200 == pc = "done" /\ falha = ""

\* C1: every section of a returned report is computed from one and the same
\* dataset state: some dataset state S that existed during the request gives,
\* when the whole report is computed on S, exactly the report returned.
C1_SnapshotUnico ==
    Respondeu200 => \E S \in vistos : res[1].body \in CorposDe(S, usuarioId)

\* C3: a failed retrieval yields only the generic failure (status 500,
\* "Erro ao gerar relatório") and no report section; a response is sent at
\* most once, exactly once when the request is over, and it is either the
\* complete report or the generic failure.
C3_TudoOuNada ==
    /\ Len(res) <= 1
    /\ (pc = "done") <=> (Len(res) = 1)
    /\ falha # "" =>
           res = <<[status |-> 500,
                    body |-> [erro |-> "Erro ao gerar relatório"]]>>
    /\ (Len(res) = 1 /\ falha = "") =>
           /\ res[1].status = 200
           /\ buscas = TodasBuscas
           /\ DOMAIN res[1].body =
                  {"totais", "receitas", "despesas", "clientes", "estoque"}
    /\ \A i \in 1..Len(res) :
           res[i].status # 200 => DOMAIN res[i].body = {"erro"}

\* a retrieval fails after report sections have been computed
C3_Witness ==
    /\ pc = "done"
    /\ falha = "comItens"
    /\ "clientesQueMaisGastaram" \in DOMAIN sec
    /\ Len(receitaTab) > 0

Entradas(n) ==
    CASE n \in {"totalReceitas", "vendasSemAnexo", "totalVendas",
                "categoriasReceitasMap", "categoriasMaisVendidas"} ->
             {"receitas"}
      [] n \in {"totalDespesas", "despesasSemAnexo", "categoriasDespesasMap",
                "categoriasMaisDespesas", "valorGastoCategorias"} ->
             {"despesas"}
      [] n = "lucroLiquido" -> {"receitas", "despesas"}
      [] n \in {"clientesMap", "clientesQueMaisGastaram",
                "clientesComMaisCompras"} -> {"receitas", "clientes"}
      [] n = "produtosMaisVendidos" -> {"groupBy", "produtos"}
      [] n = "vendasSemItens" -> {"receitas", "comItens"}
      [] OTHER -> {"estoque"}

C12_SemEscrita == [][req' # req => db' = db]_vars

\* a report was returned on a dataset with receitas and clientes, and the
\* dataset is the only one the request has coexisted with
C12_Witness ==
    /\ Respondeu200
    /\ Len(receitaTab) > 0
    /\ Len(clienteTab) > 0
    /\ res[1].body.receitas.totalVendas > 0
    /\ vistos = {db}

\* the number of positions of s that hold x
Conta(s, x) == Cardinality({i \in 1..Len(s) : s[i] = x})

\* the sum of the amounts v[i] of the positions i at which s[i] = x
SomaOnde(s, v, x) ==
    LET F[i \in 0..Len(s)] ==
            IF i = 0 THEN 0
            ELSE F[i - 1] + (IF s[i] = x THEN v[i] ELSE 0)
    IN  F[Len(s)]

\* the client ids referenced by the fetched receitas for which the client
\* lookup returned no record
ClientesEmFalta ==
    {Val(loc.receitas[i].clienteId) :
        i \in {j \in 1..Len(loc.receitas) : Tem(loc.receitas[j].clienteId)}}
    \ {loc.clientesData[i].id : i \in 1..Len(loc.clientesData)}

\* every client that was not found has one aggregate, named prefixo followed
\* by its id, with the sum and the number of the receitas that reference it,
\* and the rankings list it
SinteticoCom(prefixo) ==
    Respondeu200 =>
        LET rs == loc.receitas
            m == sec.clientesMap
            c == res[1].body.clientes
            refs == [i \in 1..Len(rs) |-> rs[i].clienteId]
            agregado(id) ==
                [nome |-> prefixo \o ToString(id),
                 totalGasto |-> SomaOnde(refs, Valores(rs), Algum(id)),
                 contagem |-> Conta(refs, Algum(id))]
        IN  \A id \in ClientesEmFalta :
                /\ MapHas(m, id)
                /\ MapGet(m, id, <<>>) = agregado(id)
                /\ Len(m) <= Top5 =>
                       agregado(id) \in Elementos(c.clientesQueMaisGastaram)
                /\ Len(m) <= Top3 =>
                       agregado(id) \in Elementos(c.clientesComMaisCompras)

\* C13 as stated: a referenced client that is not found is listed under the
\* name "Client ID {id}", with its spend and purchase count.
C13_ClientId == SinteticoCom("Client ID ")

\* C13: a referenced client that is not found (deleted before the client
\* lookup) does not fail the report and is listed under the synthesized name
\* "Cliente ID {id}", with the sum and the number of the owner's revenue
\* entries that reference it.
C13_ClienteId == SinteticoCom("Cliente ID ")

\* client 1 was deleted after the receitas were fetched and before the lookup
C13_Witness ==
    /\ Respondeu200
    /\ ClientesEmFalta = {1}
    /\ ~ClienteExiste(1)
    /\ res[1].body.clientes.clientesQueMaisGastaram =
           <<[nome |-> "Cliente ID 1", totalGasto |-> 1, contagem |-> 1]>>
    /\ res[1].body.clientes.clientesComMaisCompras =
           <<[nome |-> "Cliente ID 1", totalGasto |-> 1, contagem |-> 1]>>

----------------------------------------------------------------------------
(* Properties of the report on a dataset at rest (SpecCalc) *)

Indices(tab, P(_)) == {i \in 1..Len(tab) : P(tab[i])}

RECURSIVE SomaValores(_, _)
SomaValores(tab, I) ==
    IF I = {} THEN 0
    ELSE LET i == CHOOSE j \in I : TRUE
         IN  tab[i].valor + SomaValores(tab, I \ {i})

DoDono(tab) == Indices(tab, LAMBDA r : r.usuarioId = usuarioId)

\* the rows of the tables that belong to u, and the line items of u's receitas
RestritoA(S, u) ==
    <<SelectSeq(S[1], LAMBDA r : r.usuarioId = u),
      SelectSeq(S[2], LAMBDA r : r.usuarioId = u),
      SelectSeq(S[3], LAMBDA r : r.usuarioId = u),
      SelectSeq(S[4], LAMBDA r : r.usuarioId = u),
      ItensDoUsuario(S[5], S[1], u)>>

\* C2: the report for owner X depends only on the records X owns: it is the
\* report of the dataset without the other owners' records, and every client
\* or product name in it is the name of a client or product of X (or, for a
\* client that is not found, the synthesized one).
C2_Isolamento ==
    Respondeu200 =>
        LET b == res[1].body
            nomesClientes ==
                {clienteTab[i].nome : i \in DoDono(clienteTab)}
                    \cup {NomeSintetico(id) : id \in 0..(Len(clienteTab) + 1)}
            nomesProdutos ==
                {Algum(produtoTab[i].nome) : i \in DoDono(produtoTab)}
        IN  /\ b \in CorposDe(RestritoA(db, usuarioId), usuarioId)
            /\ \A i \in 1..Len(b.clientes.clientesQueMaisGastaram) :
                   b.clientes.clientesQueMaisGastaram[i].nome \in nomesClientes
            /\ \A i \in 1..Len(b.clientes.clientesComMaisCompras) :
                   b.clientes.clientesComMaisCompras[i].nome \in nomesClientes
            /\ \A i \in 1..Len(b.receitas.produtosMaisVendidos) :
                   b.receitas.produtosMaisVendidos[i].nome \in nomesProdutos

\* C5: totalReceitas is the sum of the owner's revenue amounts, totalDespesas
\* the sum of the owner's expense amounts, and lucroLiquido their difference,
\* which may be negative.
C5_Totais ==
    Respondeu200 =>
        LET t == res[1].body.totais
        IN  /\ t.totalReceitas = SomaValores(receitaTab, DoDono(receitaTab))
            /\ t.totalDespesas = SomaValores(despesaTab, DoDono(despesaTab))
            /\ t.lucroLiquido = t.totalReceitas - t.totalDespesas

\* revenue entries of 100 and 50 and one expense of 30 in "rent"
C5_Witness ==
    /\ Respondeu200
    /\ res[1].body.totais =
           [totalReceitas |-> 150, totalDespesas |-> 30, lucroLiquido |-> 120]
    /\ res[1].body.despesas.categoriasMaisDespesas =
           <<[categoria |-> Rent, contagem |-> 1]>>
    /\ Len(receitaTab) = 2

\* lista is the first n of `esperado` (the elements in the order in which their
\* keys are first met in the input, with the aggregates `chaves`) sorted in
\* descending order of the aggregate, equal aggregates in input order
TopEstavel(lista, esperado, chaves, n) ==
    /\ Len(lista) = Min(n, Len(esperado))
    /\ \E f \in [1..Len(lista) -> 1..Len(esperado)] :
           /\ \A i \in 1..Len(lista) : lista[i] = esperado[f[i]]
           /\ \A i, j \in 1..Len(lista) :
                  i < j => \/ chaves[f[i]] > chaves[f[j]]
                           \/ chaves[f[i]] = chaves[f[j]] /\ f[i] < f[j]
           /\ \A k \in 1..Len(esperado), i \in 1..Len(lista) :
                  (\A j \in 1..Len(lista) : f[j] # k) =>
                      \/ chaves[k] < chaves[f[i]]
                      \/ chaves[k] = chaves[f[i]] /\ k > f[i]

\* C6: every ranking list has at most its bound of elements (3, or 5 for the
\* clients by spend), is sorted in descending order of its aggregate, and
\* lists elements of equal aggregate in the order in which their keys are
\* first met in the input.
C6_Rankings ==
    Respondeu200 =>
        LET b == res[1].body
            cr == LET r == SelectSeq(loc.receitas,
                                     LAMBDA x : Verdadeiro(x.categoria))
                  IN  [i \in 1..Len(r) |-> Val(r[i].categoria)]
            crk == Distintos(cr)
            cd == [i \in 1..Len(loc.despesas) |->
                      CategoriaDespesa(loc.despesas[i])]
            cdv == [i \in 1..Len(loc.despesas) |-> loc.despesas[i].valor]
            cdk == Distintos(cd)
            cl == MapValues(sec.clientesMap)
            its == ItensDoUsuario(itemTab, receitaTab, usuarioId)
            ip == [i \in 1..Len(its) |-> its[i].produtoId]
            iq == [i \in 1..Len(its) |-> its[i].qtdBase]
            ipk == Distintos(ip)
            pf == produtosFormatadosEstoque(loc.produtosEmEstoque)
            pc1 == SelectSeq(pf, LAMBDA x : Verdadeiro(x.categoria))
            pcat == [i \in 1..Len(pc1) |-> Val(pc1[i].categoria)]
            pcq == [i \in 1..Len(pc1) |-> pc1[i].saldoDisplay]
            pck == Distintos(pcat)
            Classe(un) == SelectSeq(pf, LAMBDA x : x.unidadeDisplay = un)
            Saldos(ps) == [i \in 1..Len(ps) |-> ps[i].saldoDisplay]
        IN  /\ TopEstavel(b.receitas.categoriasMaisVendidas,
                   [i \in 1..Len(crk) |->
                       [categoria |-> crk[i], contagem |-> Conta(cr, crk[i])]],
                   [i \in 1..Len(crk) |-> Conta(cr, crk[i])], 3)
            /\ TopEstavel(b.despesas.categoriasMaisDespesas,
                   [i \in 1..Len(cdk) |->
                       [categoria |-> cdk[i], contagem |-> Conta(cd, cdk[i])]],
                   [i \in 1..Len(cdk) |-> Conta(cd, cdk[i])], 3)
            /\ TopEstavel(b.despesas.valorGastoCategorias,
                   [i \in 1..Len(cdk) |->
                       [categoria |-> cdk[i],
                        valor |-> SomaOnde(cd, cdv, cdk[i])]],
                   [i \in 1..Len(cdk) |-> SomaOnde(cd, cdv, cdk[i])], 3)
            /\ TopEstavel(b.clientes.clientesQueMaisGastaram, cl,
                   [i \in 1..Len(cl) |-> cl[i].totalGasto], 5)
            /\ TopEstavel(b.clientes.clientesComMaisCompras, cl,
                   [i \in 1..Len(cl) |-> cl[i].contagem], 3)
            /\ Len(b.receitas.produtosMaisVendidos) = Len(loc.produtosVendidosAgg)
            /\ TopEstavel(loc.produtosVendidosAgg,
                   [i \in 1..Len(ipk) |->
                       [produtoId |-> ipk[i], soma |-> SomaOnde(ip, iq, ipk[i])]],
                   [i \in 1..Len(ipk) |-> SomaOnde(ip, iq, ipk[i])], 3)
            /\ TopEstavel(b.estoque.categoriasEstoque,
                   [i \in 1..Len(pck) |->
                       [categoria |-> pck[i],
                        quantidade |-> ToFixed2(SomaOnde(pcat, pcq, pck[i]))]],
                   [i \in 1..Len(pck) |-> SomaOnde(pcat, pcq, pck[i])], 3)
            /\ TopEstavel(b.estoque.maiorQtdUnidade,
                   [i \in 1..Len(Classe("un")) |->
                       [produto |-> Classe("un")[i].nome,
                        quantidade |-> ToFixed0(Classe("un")[i].saldoDisplay)]],
                   Saldos(Classe("un")), 3)
            /\ TopEstavel(b.estoque.maiorQtdKg,
                   [i \in 1..Len(Classe("kg")) |->
                       [produto |-> Classe("kg")[i].nome,
                        quantidade |-> ToFixed2(Classe("kg")[i].saldoDisplay),
                        unidade |-> "Kg"]],
                   Saldos(Classe("kg")), 3)
            /\ TopEstavel(b.estoque.maiorQtdMl,
                   [i \in 1..Len(Classe("L")) |->
                       [produto |-> Classe("L")[i].nome,
                        quantidade |-> ToFixed2(Classe("L")[i].saldoDisplay),
                        unidade |-> "L"]],
                   Saldos(Classe("L")), 3)

Uncategorized ==
    <<"U", "n", "c", "a", "t", "e", "g", "o", "r", "i", "z", "e", "d">>

SoEspacos(s) == \A i \in 1..Len(s) : s[i] = " "

\* the buckets of a category Map count exactly the rows I(L) of each label L
Baldes(m, labels, I(_), Contagem(_)) ==
    /\ \A i, j \in 1..Len(m) : m[i].k = m[j].k => i = j
    /\ {m[i].k : i \in 1..Len(m)} = {L \in labels : I(L) # {}}
    /\ \A i \in 1..Len(m) : Contagem(m[i].v) = Cardinality(I(m[i].k))

\* the revenue entries of the owner whose category is exactly L
ReceitasDaCategoria(L) ==
    {i \in DoDono(receitaTab) : receitaTab[i].categoria = Algum(L)}

\* no revenue entry without category is in a bucket: the buckets are those of
\* the non-empty labels, each counting the entries of exactly that label
C7_Receitas ==
    Baldes(sec.categoriasReceitasMap,
           {Val(receitaTab[i].categoria) :
               i \in {j \in DoDono(receitaTab) : Tem(receitaTab[j].categoria)}}
               \ {<<>>},
           ReceitasDaCategoria, LAMBDA v : v)

RotulosDespesas ==
    {Val(despesaTab[i].categoria) :
        i \in {j \in DoDono(despesaTab) : Tem(despesaTab[j].categoria)}}

\* C7 as stated: revenue entries with an empty or absent category are in no
\* bucket; the expense entries with an empty or absent category are counted
\* in one bucket labelled "Uncategorized", which counts exactly them, and
\* every real label has its own bucket.
C7_Uncategorized ==
    Respondeu200 =>
        /\ C7_Receitas
        /\ Baldes(sec.categoriasDespesasMap,
                  (RotulosDespesas \ {<<>>}) \cup {Uncategorized},
                  LAMBDA L :
                      {i \in DoDono(despesaTab) :
                          IF L = Uncategorized
                          THEN despesaTab[i].categoria \in {Nada, Algum(<<>>)}
                          ELSE despesaTab[i].categoria = Algum(L)},
                  LAMBDA v : v.count)

\* C7 (amended): revenue entries with an empty or absent category are in no
\* bucket; the expense entries whose category is absent, empty or only white
\* space are counted in one bucket labelled "Sem Categoria" together with
\* the entries whose category is literally "Sem Categoria", and its count is
\* the number of all those entries; every other label has its own bucket,
\* counting the entries of exactly that label.
C7_SemCategoria ==
    Respondeu200 =>
        /\ C7_Receitas
        /\ Baldes(sec.categoriasDespesasMap,
                  {L \in RotulosDespesas : ~SoEspacos(L)} \cup {SemCategoria},
                  LAMBDA L :
                      {i \in DoDono(despesaTab) :
                          IF L = SemCategoria
                          THEN \/ despesaTab[i].categoria = Nada
                               \/ SoEspacos(Val(despesaTab[i].categoria))
                               \/ despesaTab[i].categoria = Algum(SemCategoria)
                          ELSE despesaTab[i].categoria = Algum(L)},
                  LAMBDA v : v.count)

\* an expense with a blank category and one with none share the bucket, next
\* to a revenue entry without category and one with
C7_Witness ==
    /\ Respondeu200
    /\ Len(despesaTab) = 2
    /\ despesaTab[1].categoria = Algum(<<" ">>)
    /\ despesaTab[2].categoria = Nada
    /\ sec.categoriasDespesasMap =
           <<[k |-> SemCategoria, v |-> [count |-> 2, total |-> 2]]>>
    /\ Len(receitaTab) = 2
    /\ receitaTab[1].categoria = Algum(<<>>)
    /\ sec.categoriasReceitasMap = <<[k |-> Aa, v |-> 1]>>

\* C8: with a line item whose product id names no Product, the report is
\* still produced and every element of produtosMaisVendidos is an existing
\* Product, carrying that product's name.
C8_SoProdutosExistentes ==
    Respondeu200 =>
        LET pmv == res[1].body.receitas.produtosMaisVendidos
        IN  \A i \in 1..Len(pmv) :
                \E j \in 1..Len(produtoTab) :
                    /\ produtoTab[j].id = loc.produtosVendidosAgg[i].produtoId
                    /\ pmv[i].nome = Algum(produtoTab[j].nome)

\* the revenue entries of the owner that reference the client id
ReceitasDoCliente(id) ==
    {i \in DoDono(receitaTab) : receitaTab[i].clienteId = Algum(id)}

\* C9: only revenue entries that reference a client are counted; each
\* referenced client has exactly one aggregate, with the sum of the amounts
\* and the number of its revenue entries of the owner, under the client's
\* name; the rankings list these aggregates; totalClientesRegistrados is the
\* number of the owner's clients.
C9_Clientes ==
    Respondeu200 =>
        LET m == sec.clientesMap
            c == res[1].body.clientes
            ids == {Val(receitaTab[i].clienteId) :
                       i \in {j \in DoDono(receitaTab) :
                                 Tem(receitaTab[j].clienteId)}}
        IN  /\ Baldes(m, ids, ReceitasDoCliente, LAMBDA v : v.contagem)
            /\ \A i \in 1..Len(m) :
                   /\ m[i].v.totalGasto =
                          SomaValores(receitaTab, ReceitasDoCliente(m[i].k))
                   /\ \A j \in 1..Len(clienteTab) :
                          clienteTab[j].id = m[i].k =>
                              m[i].v.nome = clienteTab[j].nome
            /\ Len(c.clientesQueMaisGastaram) = Min(5, Len(m))
            /\ Len(c.clientesComMaisCompras) = Min(3, Len(m))
            /\ Elementos(c.clientesQueMaisGastaram) \subseteq Elementos(MapValues(m))
            /\ Elementos(c.clientesComMaisCompras) \subseteq Elementos(MapValues(m))
            /\ Len(m) <= 3 =>
                   /\ Elementos(c.clientesQueMaisGastaram) = Elementos(MapValues(m))
                   /\ Elementos(c.clientesComMaisCompras) = Elementos(MapValues(m))
            /\ c.totalClientesRegistrados = Cardinality(DoDono(clienteTab))

\* client "Ana" with revenue entries of 40 and 60, and a second client of the
\* owner without purchases
C9_Witness ==
    /\ Respondeu200
    /\ [nome |-> "Ana", totalGasto |-> 100, contagem |-> 2]
           \in Elementos(res[1].body.clientes.clientesQueMaisGastaram)
    /\ res[1].body.clientes.totalClientesRegistrados = 2

\* the owner u has no receita, despesa, cliente or produto, and so no line item
SemRegistros(u) ==
    /\ \A i \in 1..Len(receitaTab) : receitaTab[i].usuarioId # u
    /\ \A i \in 1..Len(despesaTab) : despesaTab[i].usuarioId # u
    /\ \A i \in 1..Len(clienteTab) : clienteTab[i].usuarioId # u
    /\ \A i \in 1..Len(produtoTab) : produtoTab[i].usuarioId # u
    /\ ItensDoUsuario(itemTab, receitaTab, u) = <<>>

CorpoVazio ==
    [totais |-> [totalReceitas |-> 0, totalDespesas |-> 0, lucroLiquido |-> 0],
     receitas |->
        [categoriasMaisVendidas |-> <<>>, produtosMaisVendidos |-> <<>>,
         totalVendas |-> 0, valorTotalVendas |-> 0, vendasSemItens |-> 0,
         vendasSemAnexo |-> 0],
     despesas |->
        [categoriasMaisDespesas |-> <<>>, valorGastoCategorias |-> <<>>,
         despesasSemAnexo |-> 0],
     clientes |->
        [clientesQueMaisGastaram |-> <<>>, clientesComMaisCompras |-> <<>>,
         totalClientesRegistrados |-> 0],
     estoque |->
        [categoriasEstoque |-> <<>>, maiorQtdUnidade |-> <<>>,
         maiorQtdKg |-> <<>>, maiorQtdMl |-> <<>>]]

\* C11: the report of an owner without any record has every total and every
\* count equal to 0 and every ranking list empty, whatever the other owners
\* have stored.
C11_DonoVazio ==
    Respondeu200 /\ SemRegistros(usuarioId) => res[1].body = CorpoVazio

\* u2 owns nothing and asks for its report while u1 owns records of every kind
C11_Witness ==
    /\ Respondeu200
    /\ usuarioId = "u2"
    /\ SemRegistros("u2")
    /\ Len(receitaTab) > 0 /\ Len(despesaTab) > 0 /\ Len(clienteTab) > 0
    /\ Len(produtoTab) > 0 /\ Len(itemTab) > 0
    /\ res[1].body = CorpoVazio

\* the owner's revenue entries with at least one line item
ReceitasComItem ==
    {i \in DoDono(receitaTab) :
        \E k \in 1..Len(itemTab) : itemTab[k].receitaId = receitaTab[i].id}

\* C14: vendasSemItens is the number of the owner's revenue entries without
\* any line item; together with the number of those that have at least one
\* line item it makes totalVendas.
C14_VendasSemItens ==
    Respondeu200 =>
        LET r == res[1].body.receitas
        IN  /\ r.vendasSemItens =
                   Cardinality(DoDono(receitaTab) \ ReceitasComItem)
            /\ r.vendasSemItens + Cardinality(ReceitasComItem) = r.totalVendas

\* u1 has two revenue entries; one has two line items, the other none, and
\* a third entry belongs to another owner
C14_Witness ==
    /\ Respondeu200
    /\ usuarioId = "u1"
    /\ Len(itemTab) = 2
    /\ itemTab[1].receitaId = 1 /\ itemTab[2].receitaId = 1
    /\ res[1].body.receitas.vendasSemItens = 1
    /\ res[1].body.receitas.totalVendas = 2

\* the owner's active products
Ativos == {i \in DoDono(produtoTab) : produtoTab[i].ativo}

\* the unit class of the product i and its display quantity, in thousandths
Classe(i) ==
    IF produtoTab[i].unidadeBase = "G" THEN "kg"
    ELSE IF produtoTab[i].unidadeBase = "ML" THEN "L" ELSE "un"
Exibido(i) ==
    IF Classe(i) = "un" THEN produtoTab[i].saldoBase * Mil
    ELSE produtoTab[i].saldoBase

Dist(a, b) == IF a >= b THEN a - b ELSE b - a

\* lista holds, one element each, the 3 (or all, if fewer) active products of
\* the class with the largest display quantity, rounded to within meio
MaioresDaClasse(lista, classe, meio) ==
    LET membros == {i \in Ativos : Classe(i) = classe}
    IN  /\ Len(lista) = Min(3, Cardinality(membros))
        /\ \E f \in [1..Len(lista) -> membros] :
               /\ \A j, k \in 1..Len(lista) : j # k => f[j] # f[k]
               /\ \A k \in 1..Len(lista) :
                      /\ lista[k].produto = produtoTab[f[k]].nome
                      /\ Dist(lista[k].quantidade, Exibido(f[k])) <= meio
               /\ \A i \in membros, k \in 1..Len(lista) :
                      (\A j \in 1..Len(lista) : f[j] # i) =>
                          Exibido(i) <= Exibido(f[k])

RECURSIVE SomaExibido(_)
SomaExibido(I) ==
    IF I = {} THEN 0
    ELSE LET i == CHOOSE j \in I : TRUE
         IN  Exibido(i) + SomaExibido(I \ {i})

\* C15: the stock section is computed from the owner's active products only:
\* each category sum is the sum of the display quantities of the active
\* products of the category, and each unit-class list (G to kg, ML to L,
\* anything else to the count list) holds the 3 active products of its
\* class with the largest display quantity.
C15_Estoque ==
    Respondeu200 =>
        LET e == res[1].body.estoque
        IN  /\ MaioresDaClasse(e.maiorQtdUnidade, "un", 500)
            /\ MaioresDaClasse(e.maiorQtdKg, "kg", 5)
            /\ MaioresDaClasse(e.maiorQtdMl, "L", 5)
            /\ \A k \in 1..Len(e.categoriasEstoque) :
                   Dist(e.categoriasEstoque[k].quantidade,
                        SomaExibido({i \in Ativos :
                            produtoTab[i].categoria =
                                Algum(e.categoriasEstoque[k].categoria)})) <= 5

\* five counted products of the owner, one of them inactive with the largest
\* quantity: the list holds the three largest active ones
C15_Witness ==
    /\ Respondeu200
    /\ usuarioId = "u1"
    /\ Len(produtoTab) = 5
    /\ produtoTab[4].nome = "X" /\ produtoTab[4].unidadeBase = "UN"
    /\ produtoTab[5].nome = "D" /\ produtoTab[5].saldoBase = 12
    /\ res[1].body.estoque.maiorQtdUnidade =
           <<[produto |-> "D", quantidade |-> 12000],
             [produto |-> "B", quantidade |-> 9000],
             [produto |-> "C", quantidade |-> 9000]>>
    /\ res[1].body.estoque.categoriasEstoque =
           <<[categoria |-> Aa, quantidade |-> 26000]>>

----------------------------------------------------------------------------
(* Properties of formatarProdutoParaExibicao (SpecFmt) *)

\* C10: unit tag G gives q/1000 and "kg", ML gives q/1000 and "L", any other
\* or a missing tag gives q and "un"; a missing quantity counts as 0; the
\* result keeps the fields of the argument, and the argument is unchanged.
C10_Formato ==
    /\ [](fmtOut # <<>> =>
            LET q == IF "saldoBase" \in DOMAIN fmtIn THEN fmtIn.saldoBase ELSE 0
                tag == IF "unidadeBase" \in DOMAIN fmtIn
                       THEN fmtIn.unidadeBase ELSE "undefined"
            IN  /\ tag = "G" =>
                       /\ 1000 * fmtOut.saldoDisplay = q * Escala
                       /\ fmtOut.unidadeDisplay = "kg"
                /\ tag = "ML" =>
                       /\ 1000 * fmtOut.saldoDisplay = q * Escala
                       /\ fmtOut.unidadeDisplay = "L"
                /\ tag \notin {"G", "ML"} =>
                       /\ fmtOut.saldoDisplay = q * Escala
                       /\ fmtOut.unidadeDisplay = "un"
                /\ DOMAIN fmtOut =
                       DOMAIN fmtIn \cup {"saldoDisplay", "unidadeDisplay"}
                /\ \A f \in DOMAIN fmtIn : fmtOut[f] = fmtIn[f])
    /\ [][fmtIn' = fmtIn]_vars

\* 2500 ML gives 2.5 L
C10_Witness ==
    /\ fmtIn = [nome |-> "Arroz", saldoBase |-> 2500, unidadeBase |-> "ML"]
    /\ fmtOut # <<>>
    /\ 2 * fmtOut.saldoDisplay = 5 * Escala
    /\ fmtOut.unidadeDisplay = "L"

====
